---- MODULE Spec2Model ----
(***************************************************************************)
(* Model of porespy/network_extraction/__snow__.py: the SNOW peak          *)
(* refinement pipeline (find_peaks, trim_saddle_points, trim_nearby_peaks  *)
(* and the orchestrator snow) on 2-D images.                               *)
(*                                                                         *)
(* An image is a function over the voxel set of its shape; a boolean mask  *)
(* is the set of its true voxels.  Voxels are <<row, col>>, 0-based, and   *)
(* the raster (C) order is row-major, as in numpy.                         *)
(***************************************************************************)
EXTENDS Integers, FiniteSets, Sequences

VARIABLES
    shape,      \* <<rows, cols>> of the image
    dt,         \* the scalar field (distance transform) handed to the stages
    r_max,      \* the radius the caller passes
    mode,       \* "snow": snow(im, r_max); "stages": the caller runs the
                \* stages itself, find_peaks(dt, r=r_max) first;
                \* "merger": the caller runs trim_nearby_peaks on a mask
    pc,         \* the next stage: "find", "saddle", "nearby", "label",
                \* "done", or "error" (an exception left the call)
    peaks,      \* the current peak mask
    p_find,     \* the mask find_peaks returned
    p_saddle,   \* the mask trim_saddle_points returned
    nb_in,      \* the mask the latest trim_nearby_peaks call received
    nb_out,     \* the mask the latest trim_nearby_peaks call returned
    nb_nn,      \* nearest_neighbor of the latest call (label -> label)
    nb_drop,    \* drop_peaks of the latest call (a set of labels)
    calls,      \* number of trim_nearby_peaks calls that returned
    markers     \* the label image snow returns

vars == <<shape, dt, r_max, mode, pc, peaks, p_find, p_saddle,
          nb_in, nb_out, nb_nn, nb_drop, calls, markers>>

----------------------------------------------------------------------------
(* Bounds of the model *)

\* field values of the pipeline inputs are 0..MaxDt
MaxDt == 3
\* field values of the inputs of the direct trim_nearby_peaks calls are
\* MergerMinDt..MergerMaxDt
MergerMinDt == 2
MergerMaxDt == 3
\* consecutive trim_nearby_peaks calls in mode "merger"
MaxCalls == 2

(* Program constants *)

\* find_peaks(dt, r=4, ...)
DefaultR == 4
\* dt + 2*(~im)
Bias == 2
\* extend_slice(..., pad=10)
Pad == 10
\* trim_saddle_points(peaks, dt, max_iters=10)
MaxIters == 10

----------------------------------------------------------------------------
(* Arrays *)

Vox(sh) == {<<r, c>> : r \in 0 .. sh[1] - 1, c \in 0 .. sh[2] - 1}

Raster(v, sh) == v[1] * sh[2] + v[2]

Abs(x) == IF x < 0 THEN -x ELSE x

Max2(a, b) == IF a < b THEN b ELSE a

Min2(a, b) == IF a < b THEN a ELSE b

SetMax(S) == CHOOSE x \in S : \A y \in S : y <= x

RECURSIVE SetSum(_, _)
SetSum(S, k) ==
    IF S = {} THEN 0
    ELSE LET v == CHOOSE x \in S : TRUE IN v[k] + SetSum(S \ {v}, k)

----------------------------------------------------------------------------
(* find_peaks *)

\* skimage.morphology.disk(r): the offsets with X**2 + Y**2 <= r**2
disk(r) == {o \in {<<y, x>> : y \in -r .. r, x \in -r .. r} :
                o[1] * o[1] + o[2] * o[2] <= r * r}

\* scipy.ndimage boundary mode 'reflect' (d c b a | a b c d | d c b a)
RECURSIVE Reflect(_, _)
Reflect(i, n) ==
    IF i < 0 THEN Reflect(-i - 1, n)
    ELSE IF i >= n THEN Reflect(2 * n - 1 - i, n)
    ELSE i

\* spim.maximum_filter(f, footprint=fp)
maximum_filter(f, fp, sh) ==
    [v \in Vox(sh) |->
        SetMax({f[<<Reflect(v[1] + o[1], sh[1]), Reflect(v[2] + o[2], sh[2])>>] :
                    o \in fp})]

\* dt + 2*(~im), with im = dt > 0
Biased(d, sh) == [v \in Vox(sh) |-> d[v] + (IF d[v] > 0 THEN 0 ELSE Bias)]

\* find_peaks comparing the biased field with its maximum and leaving out the
\* pore mask: peaks = (dt + 2*(~im) == mx)
find_peaks_biased_compare(d, r, sh) ==
    LET mx == maximum_filter(Biased(d, sh), disk(r), sh)
    IN  {v \in Vox(sh) : Biased(d, sh)[v] = mx[v]}

\* peaks = (dt == mx)*im
find_peaks(d, r, sh) ==
    LET mx == maximum_filter(Biased(d, sh), disk(r), sh)
    IN  {v \in Vox(sh) : d[v] = mx[v] /\ d[v] > 0}

----------------------------------------------------------------------------
(* Connected-component labelling *)

\* full = TRUE: structure cube(3) (square(3) in 2-D); FALSE: scipy's default cross
Adj(v, w, full) ==
    /\ v # w
    /\ Abs(v[1] - w[1]) <= 1
    /\ Abs(v[2] - w[2]) <= 1
    /\ (full \/ Abs(v[1] - w[1]) + Abs(v[2] - w[2]) = 1)

RECURSIVE Component(_, _, _)
Component(seed, mask, full) ==
    LET nxt == seed \cup {w \in mask : \E v \in seed : Adj(v, w, full)}
    IN  IF nxt = seed THEN seed ELSE Component(nxt, mask, full)

\* spim.label: the blobs, numbered in raster order of their first voxel
RECURSIVE label(_, _, _)
label(mask, full, sh) ==
    IF mask = {} THEN <<>>
    ELSE LET first == CHOOSE v \in mask :
                          \A w \in mask : Raster(v, sh) <= Raster(w, sh)
             blob == Component({first}, mask, full)
         IN  <<blob>> \o label(mask \ blob, full, sh)

\* spim.find_objects: the bounding box of one blob
find_objects(blob) ==
    [r0 |-> CHOOSE a \in {v[1] : v \in blob} : \A v \in blob : a <= v[1],
     r1 |-> SetMax({v[1] : v \in blob}),
     c0 |-> CHOOSE a \in {v[2] : v \in blob} : \A v \in blob : a <= v[2],
     c1 |-> SetMax({v[2] : v \in blob})]

\* the voxels of a slice
Window(s) == {<<r, c>> : r \in s.r0 .. s.r1, c \in s.c0 .. s.c1}

\* porespy.tools.extend_slice: the slice grown by pad, clamped to the array
extend_slice(s, sh, pad) ==
    [r0 |-> Max2(s.r0 - pad, 0), r1 |-> Min2(s.r1 + pad, sh[1] - 1),
     c0 |-> Max2(s.c0 - pad, 0), c1 |-> Min2(s.c1 + pad, sh[2] - 1)]

----------------------------------------------------------------------------
(* trim_saddle_points *)

\* spim.binary_dilation(input, structure=cube(3)) inside the window
binary_dilation(S, win) ==
    {w \in win : \E v \in S : Abs(v[1] - w[1]) <= 1 /\ Abs(v[2] - w[2]) <= 1}

\* the while loop of one blob; the value is peaks_i when the loop ends
RECURSIVE saddle_loop(_, _, _, _, _, _)
saddle_loop(iters, peaks_dil, peaks_i, d, win, max_iters) ==
    IF iters >= max_iters THEN peaks_i
    ELSE
        LET dil == binary_dilation(peaks_dil, win)
            amax == SetMax({IF v \in dil THEN d[v] ELSE 0 : v \in win})
            peaks_max == [v \in win |-> IF v \in dil THEN amax ELSE 0]
            peaks_extended == {v \in win : peaks_max[v] = d[v] /\ d[v] > 0}
        IN  IF peaks_extended = peaks_i THEN peaks_i
            ELSE IF peaks_extended \cap peaks_i = {} THEN {}
            ELSE saddle_loop(iters + 1, dil, peaks_i, d, win, max_iters)

\* the window of blob i: extend_slice(s=slices[i], shape=peaks.shape, pad=10)
blob_window(blob, sh) == Window(extend_slice(find_objects(blob), sh, Pad))

\* the verdict of one blob's own loop
blob_result(blob, d, sh, max_iters) ==
    saddle_loop(0, blob, blob, d, blob_window(blob, sh), max_iters)

\* peaks[s] = peaks_i
write_back(cur, blob, win, res) == (cur \ win) \cup res

\* the for loop over the labels, from label i on
RECURSIVE saddle_for(_, _, _, _, _, _)
saddle_for(i, blobs, cur, d, sh, max_iters) ==
    IF i > Len(blobs) THEN cur
    ELSE saddle_for(i + 1, blobs,
                    write_back(cur, blobs[i], blob_window(blobs[i], sh),
                               blob_result(blobs[i], d, sh, max_iters)),
                    d, sh, max_iters)

trim_saddle_points(p, d, sh, max_iters) ==
    saddle_for(1, label(p, FALSE, sh), p, d, sh, max_iters)

----------------------------------------------------------------------------
(* trim_nearby_peaks *)

\* center_of_mass of one label, then .astype(int)
centroid(blob) ==
    <<SetSum(blob, 1) \div Cardinality(blob), SetSum(blob, 2) \div Cardinality(blob)>>

Dist2(a, b) == (a[1] - b[1]) * (a[1] - b[1]) + (a[2] - b[2]) * (a[2] - b[2])

\* tree.query(x=crds, k=2)[1][:, 1]: for each centroid the second of its two
\* nearest points.  With one point only the tree answers index N (here N + 1,
\* labels being 1-based) at distance inf.  Points at equal distance come in an
\* order the tree does not specify, so every nearest candidate is an outcome;
\* a coincident centroid may take the first place and leave the point itself
\* in the second.
NearestCandidates(crds, i) ==
    LET N == Len(crds)
        others == (1 .. N) \ {i}
    IN  IF others = {} THEN {N + 1}
        ELSE LET dmin == CHOOSE x \in {Dist2(crds[i], crds[j]) : j \in others} :
                             \A j \in others : x <= Dist2(crds[i], crds[j])
             IN  {j \in others : Dist2(crds[i], crds[j]) = dmin}
                    \cup (IF dmin = 0 THEN {i} ELSE {})

NearestNeighbors(crds) ==
    {nn \in [1 .. Len(crds) -> 1 .. Len(crds) + 1] :
        \A i \in 1 .. Len(crds) : nn[i] \in NearestCandidates(crds, i)}

\* dist_to_neighbor[i] < dist_to_solid[i], on squares (both sides are >= 0)
Contested(crds, dts, nn, i) ==
    /\ nn[i] <= Len(crds)
    /\ Dist2(crds[i], crds[nn[i]]) < dts[i] * dts[i]

\* the peak one hit marks: lines 198-201
Marked(dts, nn, i) == IF dts[i] < dts[nn[i]] THEN i ELSE nn[i]

\* sp.unique(drop_peaks)
drop_peaks(crds, dts, nn) ==
    {Marked(dts, nn, i) : i \in {h \in 1 .. Len(crds) : Contested(crds, dts, nn, h)}}

\* for s in drop_peaks: peaks[slices[s]] = 0
clear_slices(p, blobs, drop) == p \ UNION {Window(find_objects(blobs[s])) : s \in drop}

\* dist_to_solid = dt[list(crds.T)]
dist_to_solid(d, crds) == [i \in 1 .. Len(crds) |-> d[crds[i]]]

Centroids(blobs) == [i \in 1 .. Len(blobs) |-> centroid(blobs[i])]

\* the mask trim_nearby_peaks returns for N >= 1 blobs and the tree's answer nn
trim_nearby_peaks(p, d, sh, nn) ==
    LET blobs == label(p, TRUE, sh)
        crds == Centroids(blobs)
    IN  clear_slices(p, blobs, drop_peaks(crds, dist_to_solid(d, crds), nn))

----------------------------------------------------------------------------
(* The calls *)

\* peaks = find_peaks(dt=dt) in snow; find_peaks(dt, r=r_max) by a caller
FindRadius == IF mode = "snow" THEN DefaultR ELSE r_max

FindPeaks ==
    /\ pc = "find"
    /\ peaks' = find_peaks(dt, FindRadius, shape)
    /\ p_find' = peaks'
    /\ pc' = "saddle"
    /\ UNCHANGED <<shape, dt, r_max, mode, p_saddle, nb_in, nb_out, nb_nn,
                   nb_drop, calls, markers>>

TrimSaddle ==
    /\ pc = "saddle"
    /\ peaks' = trim_saddle_points(peaks, dt, shape, MaxIters)
    /\ p_saddle' = peaks'
    /\ pc' = "nearby"
    /\ UNCHANGED <<shape, dt, r_max, mode, p_find, nb_in, nb_out, nb_nn,
                   nb_drop, calls, markers>>

AfterNearby(n) ==
    IF mode = "snow" THEN "label"
    ELSE IF mode = "merger" /\ n < MaxCalls THEN "nearby"
    ELSE "done"

\* N >= 1
TrimNearby ==
    /\ pc = "nearby"
    /\ label(peaks, TRUE, shape) # <<>>
    /\ \E nn \in NearestNeighbors(Centroids(label(peaks, TRUE, shape))) :
          LET blobs == label(peaks, TRUE, shape)
              crds == Centroids(blobs)
          IN  /\ nb_nn' = nn
              /\ nb_drop' = drop_peaks(crds, dist_to_solid(dt, crds), nn)
              /\ peaks' = trim_nearby_peaks(peaks, dt, shape, nn)
    /\ nb_in' = peaks
    /\ nb_out' = peaks'
    /\ calls' = calls + 1
    /\ pc' = AfterNearby(calls')
    /\ UNCHANGED <<shape, dt, r_max, mode, p_find, p_saddle, markers>>

\* N = 0: center_of_mass returns [] and sp.vstack([]) raises ValueError
TrimNearbyRaises ==
    /\ pc = "nearby"
    /\ label(peaks, TRUE, shape) = <<>>
    /\ nb_in' = peaks
    /\ pc' = "error"
    /\ UNCHANGED <<shape, dt, r_max, mode, peaks, p_find, p_saddle, nb_out,
                   nb_nn, nb_drop, calls, markers>>

\* peaks, N = spim.label(peaks); return peaks
LabelImage(p, sh) ==
    LET blobs == label(p, FALSE, sh)
    IN  [v \in Vox(sh) |->
            IF v \in p THEN CHOOSE i \in 1 .. Len(blobs) : v \in blobs[i] ELSE 0]

Relabel ==
    /\ pc = "label"
    /\ markers' = LabelImage(peaks, shape)
    /\ pc' = "done"
    /\ UNCHANGED <<shape, dt, r_max, mode, peaks, p_find, p_saddle, nb_in,
                   nb_out, nb_nn, nb_drop, calls>>

----------------------------------------------------------------------------
(* Specifications *)

NoMarkers(sh) == [v \in Vox(sh) |-> 0]

Fresh ==
    /\ p_find = {}
    /\ p_saddle = {}
    /\ nb_in = {}
    /\ nb_out = {}
    /\ nb_nn = <<>>
    /\ nb_drop = {}
    /\ calls = 0
    /\ markers = NoMarkers(shape)

\* the image of the pipeline runs
SmallShape == <<2, 3>>
\* the radii a caller passes
Radii == {1, 2, 4}

\* snow(dt, r_max, sigma=0) and the same stages run by a caller, on every field
\* of the small image.  The field of an all-false boolean image is all zeros.
Init ==
    /\ shape = SmallShape
    /\ dt \in [Vox(SmallShape) -> 0 .. MaxDt]
    /\ r_max \in Radii
    /\ mode \in {"snow", "stages"}
    /\ pc = "find"
    /\ peaks = {}
    /\ Fresh

Next == FindPeaks \/ TrimSaddle \/ TrimNearby \/ TrimNearbyRaises \/ Relabel

Spec == Init /\ [][Next]_vars

\* the image of the direct trim_nearby_peaks calls
MergerShape == <<3, 3>>

\* trim_nearby_peaks(peaks, dt) on every mask, and again on its own output
InitMerger ==
    /\ shape = MergerShape
    /\ dt \in [Vox(MergerShape) -> MergerMinDt .. MergerMaxDt]
    /\ r_max = DefaultR
    /\ mode = "merger"
    /\ pc = "nearby"
    /\ peaks \in SUBSET Vox(MergerShape)
    /\ Fresh

NextMerger == TrimNearby \/ TrimNearbyRaises

SpecMerger == InitMerger /\ [][NextMerger]_vars

\* the image of the wide pipeline runs: one column more than a padded window
\* of a one-voxel blob reaches
WideShape == <<2, Pad + 2>>
\* the two field values of the wide runs
RidgeLow == 1
RidgeHigh == 2

\* a pore-only field with one run of high values per row: columns a..b-1 of
\* row 0 and columns c..d-1 of row 1
Ridge(a, b, c, d) ==
    [v \in Vox(WideShape) |->
        IF \/ (v[1] = 0 /\ a <= v[2] /\ v[2] < b)
           \/ (v[1] = 1 /\ c <= v[2] /\ v[2] < d)
        THEN RidgeHigh ELSE RidgeLow]

RidgeFields ==
    {Ridge(a, b, c, d) : a \in 0 .. WideShape[2], b \in 0 .. WideShape[2],
                         c \in 0 .. WideShape[2], d \in 0 .. WideShape[2]}

\* snow(dt, sigma=0) on the ridge fields of the wide image
InitWide ==
    /\ shape = WideShape
    /\ dt \in RidgeFields
    /\ r_max = DefaultR
    /\ mode = "snow"
    /\ pc = "find"
    /\ peaks = {}
    /\ Fresh

SpecWide == InitWide /\ [][Next]_vars

----------------------------------------------------------------------------
(* Properties *)

\* the surviving peaks of a mask: its blobs under full adjacency
Survivors(m) == label(m, TRUE, shape)

\* number of blobs under full adjacency
BlobCount(m) == Len(label(m, TRUE, shape))

\* two peaks nearer to each other than each is to the solid
TooClose(crds, dts, i, j) ==
    /\ Dist2(crds[i], crds[j]) < dts[i] * dts[i]
    /\ Dist2(crds[i], crds[j]) < dts[j] * dts[j]

\* the blobs, centroids and distances to solid of the latest call's input
InBlobs == label(nb_in, TRUE, shape)
InCrds == Centroids(InBlobs)
InDts == dist_to_solid(dt, InCrds)

C2_MutualPairLeavesOne ==
    calls >= 1 =>
        \A i, j \in 1 .. Len(InBlobs) :
            (/\ i # j
             /\ nb_nn[i] = j
             /\ nb_nn[j] = i
             /\ Contested(InCrds, InDts, nb_nn, i)
             /\ Contested(InCrds, InDts, nb_nn, j))
            => /\ Marked(InDts, nb_nn, i) = Marked(InDts, nb_nn, j)
               /\ (InBlobs[i] \cap nb_out = {}) # (InBlobs[j] \cap nb_out = {})

\* C3: trim_nearby_peaks run again on its own output returns that output: the
\* second run removes no peak.
C3_SecondRunChangesNothing == calls = 2 => nb_out = nb_in

AllSolid == \A v \in Vox(shape) : dt[v] = 0

\* C4: with an all-solid domain (no peak at all) the pipeline ends without an
\* error: trim_nearby_peaks called with zero peaks returns an empty mask.
C4_NoPeaksNoError ==
    AllSolid => /\ pc # "error"
                /\ pc = "done" => markers = NoMarkers(shape)

\* the local maxima of the unbiased field within radius r
UnbiasedMaxima(d, r, sh) ==
    LET mx == maximum_filter(d, disk(r), sh)
    IN  {v \in Vox(sh) : d[v] = mx[v] /\ d[v] > 0}

\* C5: find_peaks marks a voxel iff its field value is positive and equals the
\* maximum of the unbiased field over its neighbourhood: the bias on the solid
\* voxels changes no pore voxel's verdict.
C5_PeaksAreUnbiasedMaxima ==
    pc # "find" => p_find = UnbiasedMaxima(dt, FindRadius, shape)

\* C6: snow detects the candidate peaks with the radius r_max of its caller.
C6_SnowUsesRMax ==
    (mode = "snow" /\ pc # "find") => p_find = find_peaks(dt, r_max, shape)

\* C7: the number of blobs (full adjacency) does not grow from the find_peaks
\* output to the trim_saddle_points output, nor from there to the
\* trim_nearby_peaks output.
C7_BlobCountNeverGrows ==
    /\ pc \notin {"find", "saddle"} => BlobCount(p_saddle) <= BlobCount(p_find)
    /\ calls >= 1 => BlobCount(nb_out) <= BlobCount(nb_in)

\* C8: every voxel of the mask of each stage, and every nonzero voxel of the
\* marker image, has a strictly positive field value.
C8_PeaksOnPore ==
    /\ \A v \in p_find \cup p_saddle \cup nb_out \cup peaks : dt[v] > 0
    /\ \A v \in Vox(shape) : markers[v] # 0 => dt[v] > 0

\* a finished snow run in which each stage had something to do: the saddle
\* trimmer removed a candidate and a peak is left in the marker image
C8_Witness ==
    /\ mode = "snow"
    /\ pc = "done"
    /\ p_saddle # p_find
    /\ \E v \in Vox(shape) : markers[v] # 0 /\ dt[v] > 0
    /\ \E v \in Vox(shape) : dt[v] = 0

\* the blobs trim_saddle_points works on, and those whose own loop keeps them
SaddleBlobs == label(p_find, FALSE, shape)
KeptBySaddleLoop ==
    UNION {blob_result(SaddleBlobs[i], dt, shape, MaxIters) :
               i \in 1 .. Len(SaddleBlobs)}

\* C9: after the loop over the blobs, the mask holds exactly the voxels of the
\* blobs whose own growth loop did not end in the saddle condition: no blob's
\* write changes another blob's voxels.
C9_SaddleKeepsEveryTruePeak ==
    pc \notin {"find", "saddle"} => p_saddle = KeptBySaddleLoop

\* a mask without the voxels of the blobs a removal set names
clear_blobs(p, blobs, drop) == p \ UNION {blobs[s] : s \in drop}

\* C10: trim_nearby_peaks returns its input minus exactly the voxels of the
\* blobs in drop_peaks.
C10_ClearsExactlyDropped ==
    calls >= 1 => nb_out = clear_blobs(nb_in, InBlobs, nb_drop)

====
